---- MODULE Spec2Model ----
(***************************************************************************)
(* Model of the ArTagBasedLocalizer node                                   *)
(* (localization/landmark_based_localizer/ar_tag_based_localizer).         *)
(*                                                                         *)
(* Numbers.  Coordinates, stamps and tolerances are integers (metres and   *)
(* clock ticks).  An orientation is a yaw of k quarter turns about z, so   *)
(* that rotation matrices have integer entries and the rigid-transform     *)
(* algebra is exact.  A covariance entry is a rational [num, den].         *)
(*                                                                         *)
(* Scheduling.  setup() creates the four subscriptions without a callback  *)
(* group, that is in the node's default (mutually exclusive) group: the    *)
(* executor starts a callback only when no other callback of the node is   *)
(* running (ExecutorFree).  The callbacks are modelled statement by        *)
(* statement so that this exclusion, and not the grain of the model, is    *)
(* what keeps them apart.  The tf buffer is filled by the listener's own    *)
(* thread; the outcome of a lookup is an input of the step that makes it.  *)
(*                                                                         *)
(* Not modelled: the debug outputs (marker array, result image, broadcast  *)
(* of detected_marker_* frames) and the marker detector itself, whose      *)
(* output is an input of image_callback.                                   *)
(***************************************************************************)
EXTENDS Integers, Sequences, FiniteSets, TLC

\* ------------------------------------------------------------------ bounds
MaxTime == 1
MaxMarkers == 2

\* --------------------------------------------------------------- constants
CovarianceSize == 36
ReferenceDistance == 5

VARIABLES
  node_state,                   \* "constructed" | "running" | "setup_failed" | "terminated"
  target_tag_ids_, base_covariance_, distance_threshold_squared_,
  ekf_time_tolerance_, ekf_position_tolerance_, detection_mode_,
  cam_info_received_, cam_param_,
  landmark_map_, latest_ekf_pose_,
  img_pc, ekf_pc, map_pc,       \* position of each callback, "idle" when not running
  curr_stamp, markers, marker_idx,          \* locals of image_callback
  image_result,                 \* how the last image_callback started or why it returned
  outcomes,                     \* last step of each detection the running callback finished
  trace, transform, curr_pose, pub_before,  \* locals of publish_pose_as_base_link
  ref_stamp_used, ref_position_used,        \* what the two reference checks read
  ekf_msg, ekf_completed,       \* message being copied; last message fully copied
  map_msg, map_completed,       \* registry being assigned; last registry fully assigned
  pose_pub, diag_pub            \* messages published by the running image_callback

cfg_vars == <<target_tag_ids_, base_covariance_, distance_threshold_squared_,
              ekf_time_tolerance_, ekf_position_tolerance_, detection_mode_>>
cam_vars == <<cam_info_received_, cam_param_>>
ekf_vars == <<latest_ekf_pose_, ekf_pc, ekf_msg, ekf_completed>>
map_vars == <<landmark_map_, map_pc, map_msg, map_completed>>
img_vars == <<img_pc, curr_stamp, markers, marker_idx, image_result, outcomes>>
det_vars == <<trace, transform, curr_pose, pub_before, ref_stamp_used, ref_position_used>>
out_vars == <<pose_pub, diag_pub>>

vars == <<node_state, cfg_vars, cam_vars, ekf_vars, map_vars,
          img_vars, det_vars, out_vars>>

None == "none"

\* an absent value; a present value v is the set {v}
Nothing == {}

Just(v) == {v}

The(opt) == CHOOSE v \in opt : TRUE

\* ------------------------------------------------- rigid transform algebra
Vec(x, y, z) == [x |-> x, y |-> y, z |-> z]

Pose(x, y, z, yaw) == [position |-> Vec(x, y, z), yaw |-> yaw]

IdentityPose == Pose(0, 0, 0, 0)

\* cosine and sine of k quarter turns
Cos4(k) == CASE k % 4 = 0 -> 1 [] k % 4 = 1 -> 0 [] k % 4 = 2 -> -1 [] OTHER -> 0

Sin4(k) == CASE k % 4 = 0 -> 0 [] k % 4 = 1 -> 1 [] k % 4 = 2 -> 0 [] OTHER -> -1

\* Pose (position, orientation) -> affine transform: rotation matrix about z
\* (c -s ; s c) and translation t.
pose_to_affine3d(p) == [c |-> Cos4(p.yaw), s |-> Sin4(p.yaw), t |-> p.position]

\* rotation part of an affine applied to a vector
Rotate(a, v) == Vec(a.c * v.x - a.s * v.y, a.s * v.x + a.c * v.y, v.z)

VecAdd(u, v) == Vec(u.x + v.x, u.y + v.y, u.z + v.z)

VecNeg(v) == Vec(0 - v.x, 0 - v.y, 0 - v.z)

\* Eigen::Affine3d operator*: apply b, then a
AffineMul(a, b) ==
  [c |-> a.c * b.c - a.s * b.s,
   s |-> a.s * b.c + a.c * b.s,
   t |-> VecAdd(Rotate(a, b.t), a.t)]

\* Eigen::Affine3d::inverse(): transposed rotation, translation -R^T t
AffineInverse(a) ==
  LET rt == [c |-> a.c, s |-> 0 - a.s, t |-> Vec(0, 0, 0)]
  IN  [c |-> a.c, s |-> 0 - a.s, t |-> VecNeg(Rotate(rt, a.t))]

\* tf2::toMsg(Eigen::Affine3d) -> Pose
AffineToPose(a) ==
  [position |-> a.t,
   yaw |-> CHOOSE k \in 0..3 : Cos4(k) = a.c /\ Sin4(k) = a.s]

\* tf2::doTransform(pose_in, pose_out, transform): pose_out = transform * pose_in
doTransform(pose_in, tf) ==
  AffineToPose(AffineMul(pose_to_affine3d(tf), pose_to_affine3d(pose_in)))

\* squared Euclidean distance between two points
NormSquared(p, q) ==
  (p.x - q.x) * (p.x - q.x) + (p.y - q.y) * (p.y - q.y) + (p.z - q.z) * (p.z - q.z)

\* std::sqrt, on the perfect squares the model's detections produce
Sqrt(n) == CHOOSE r \in 0..n : r * r = n

\* ------------------------------------------------------------------ inputs
Stamps == 0..MaxTime

\* parameter files: marker whitelist, base covariance (36 entries in each of
\* them), distance threshold, time and position tolerance, detection mode
ConfigA ==
  [target_tag_ids |-> <<"5", "7">>,
   base_covariance |-> [i \in 1..CovarianceSize |-> i],
   distance_threshold |-> 10,
   ekf_time_tolerance |-> 1,
   ekf_position_tolerance |-> 1,
   detection_mode |-> "DM_NORMAL"]

ConfigB ==
  [target_tag_ids |-> <<"5">>,
   base_covariance |-> [i \in 1..CovarianceSize |-> IF (i - 1) % 7 = 0 THEN 3 ELSE 0],
   distance_threshold |-> 5,
   ekf_time_tolerance |-> 0,
   ekf_position_tolerance |-> 0,
   detection_mode |-> "DM_VIDEO_FAST"]

ConfigInvalidMode == [ConfigA EXCEPT !.detection_mode = "DM_UNKNOWN"]

Configs == {ConfigA, ConfigB, ConfigInvalidMode}

\* a parameter file whose base covariance lacks its last entry
ConfigShortCovariance ==
  [ConfigA EXCEPT !.base_covariance = [i \in 1..(CovarianceSize - 1) |-> i]]

AnyConfigs == Configs \cup {ConfigShortCovariance}

\* what base_covariance_[i] can yield for i beyond the vector's size: some
\* value found in memory, or a fault that ends the process
OutOfBoundsReads ==
  {[fault |-> FALSE, value |-> 0], [fault |-> FALSE, value |-> 7],
   [fault |-> TRUE, value |-> 0]}

DetectionModes == {"DM_NORMAL", "DM_FAST", "DM_VIDEO_FAST"}

\* registries parse_landmark can return
EmptyMap == [t \in {} |-> IdentityPose]

MapOne ==
  [t \in {"0", "5", "7"} |->
     CASE t = "0" -> Pose(1, 1, 0, 0)
       [] t = "5" -> Pose(10, 0, 0, 0)
       [] OTHER   -> Pose(14, 8, 0, 1)]

MapTwo == [t \in {"5"} |-> Pose(11, 5, 0, 0)]

MapThree == [t \in {"5"} |-> Pose(2, 0, 0, 0)]

LandmarkMaps == {EmptyMap, MapOne, MapTwo, MapThree}

\* what the detector can report for one marker: identifier and sensor-to-tag pose
Detection(id, pose) == [id |-> id, pose |-> pose]

Detections ==
  {Detection("5", Pose(2, 0, 0, 0)),
   Detection("7", Pose(6, 8, 0, 1)),
   Detection("5", Pose(3, 4, 0, 0)),
   Detection("5", Pose(10, 1, 0, 0))}

RECURSIVE SeqsUpTo(_, _)
SeqsUpTo(S, n) ==
  IF n = 0 THEN {<< >>}
  ELSE LET shorter == SeqsUpTo(S, n - 1)
       IN  shorter \cup {Append(q, e) : q \in {r \in shorter : Len(r) = n - 1}, e \in S}

\* what the detector can report for one image
MarkerVectors == SeqsUpTo(Detections, MaxMarkers)

\* sensor-to-base_link transforms the tf buffer can return
Transforms == {IdentityPose, Pose(1, 0, 0, 1)}

\* outcomes of lookupTransform: Nothing when it throws
LookupResults == {Nothing} \cup {Just(t) : t \in Transforms}

\* reference poses the EKF can send (the orientation is never read)
EkfPositions == {Vec(8, 0, 0), Vec(8, 1, 0)}

EkfMsg(stamp, position) == [stamp |-> stamp, position |-> position]

EkfMsgs == {EkfMsg(s, p) : s \in Stamps, p \in EkfPositions}

\* default-constructed PoseWithCovarianceStamped
DefaultEkfPose == EkfMsg(0, Vec(0, 0, 0))

CamInfos == {"camera_a", "camera_b"}

\* ----------------------------------------------------------- initial state
Init ==
  /\ node_state = "constructed"
  /\ target_tag_ids_ = << >>
  /\ base_covariance_ = << >>
  /\ distance_threshold_squared_ = 0
  /\ ekf_time_tolerance_ = 0
  /\ ekf_position_tolerance_ = 0
  /\ detection_mode_ = None
  /\ cam_info_received_ = FALSE
  /\ cam_param_ = None
  /\ landmark_map_ = EmptyMap
  /\ latest_ekf_pose_ = DefaultEkfPose
  /\ img_pc = "idle" /\ ekf_pc = "idle" /\ map_pc = "idle"
  /\ curr_stamp = 0 /\ markers = << >> /\ marker_idx = 0
  /\ image_result = None /\ outcomes = << >>
  /\ trace = << >> /\ transform = Nothing /\ curr_pose = Nothing /\ pub_before = 0
  /\ ref_stamp_used = Nothing /\ ref_position_used = Nothing
  /\ ekf_msg = Nothing /\ ekf_completed = DefaultEkfPose
  /\ map_msg = Nothing /\ map_completed = EmptyMap
  /\ pose_pub = << >> /\ diag_pub = Nothing

\* ------------------------------------------------------------------- setup
\* setup(): the parameters are stored first; an unknown detection mode returns
\* false before any subscription exists, so no callback ever runs.
SetupWith(cfg) ==
  /\ target_tag_ids_' = cfg.target_tag_ids
  /\ base_covariance_' = cfg.base_covariance
  /\ distance_threshold_squared_' = cfg.distance_threshold * cfg.distance_threshold
  /\ ekf_time_tolerance_' = cfg.ekf_time_tolerance
  /\ ekf_position_tolerance_' = cfg.ekf_position_tolerance
  /\ IF cfg.detection_mode \in DetectionModes
     THEN detection_mode_' = cfg.detection_mode /\ node_state' = "running"
     ELSE detection_mode_' = detection_mode_ /\ node_state' = "setup_failed"

setup ==
  /\ node_state = "constructed"
  /\ \E cfg \in Configs : SetupWith(cfg)
  /\ UNCHANGED <<cam_vars, ekf_vars, map_vars, img_vars, det_vars, out_vars>>

\* setup() with any parameter file: the size of base_covariance is not looked at
setup_any_config ==
  /\ node_state = "constructed"
  /\ \E cfg \in AnyConfigs : SetupWith(cfg)
  /\ UNCHANGED <<cam_vars, ekf_vars, map_vars, img_vars, det_vars, out_vars>>

\* --------------------------------------------------------------- scheduling
\* The subscriptions exist once setup() succeeded.
Subscribed == node_state = "running"

\* variant: a reentrant callback group, in which callbacks start at any time
ExecutorFree_reentrant == TRUE

\* All four subscriptions are in the node's default callback group, which is
\* mutually exclusive: a callback starts only when none is running.
ExecutorFree == img_pc = "idle" /\ ekf_pc = "idle" /\ map_pc = "idle"

\* A callback that takes every camera info.
cam_info_callback_every_message ==
  /\ Subscribed /\ ExecutorFree
  /\ \E msg \in CamInfos :
       cam_param_' = msg /\ cam_info_received_' = TRUE
  /\ UNCHANGED <<node_state, cfg_vars, ekf_vars, map_vars, img_vars, det_vars, out_vars>>

\* ------------------------------------------------------- cam_info_callback
cam_info_callback ==
  /\ Subscribed /\ ExecutorFree
  /\ \E msg \in CamInfos :
       IF cam_info_received_
       THEN UNCHANGED cam_vars
       ELSE cam_param_' = msg /\ cam_info_received_' = TRUE
  /\ UNCHANGED <<node_state, cfg_vars, ekf_vars, map_vars, img_vars, det_vars, out_vars>>

\* ------------------------------------------------------- ekf_pose_callback
\* latest_ekf_pose_ = msg copies the header, then the pose.
ekf_pose_callback_header ==
  /\ Subscribed /\ ExecutorFree /\ ekf_pc = "idle"
  /\ \E msg \in EkfMsgs :
       /\ ekf_msg' = Just(msg)
       /\ latest_ekf_pose_' = [latest_ekf_pose_ EXCEPT !.stamp = msg.stamp]
  /\ ekf_pc' = "copy_pose"
  /\ UNCHANGED <<node_state, cfg_vars, cam_vars, ekf_completed, map_vars,
                 img_vars, det_vars, out_vars>>

ekf_pose_callback_pose ==
  /\ Subscribed /\ ekf_pc = "copy_pose"
  /\ latest_ekf_pose_' = [latest_ekf_pose_ EXCEPT !.position = The(ekf_msg).position]
  /\ ekf_completed' = The(ekf_msg)
  /\ ekf_msg' = Nothing
  /\ ekf_pc' = "idle"
  /\ UNCHANGED <<node_state, cfg_vars, cam_vars, map_vars,
                 img_vars, det_vars, out_vars>>

\* -------------------------------------------------------- map_bin_callback
\* landmark_map_ = parse_landmark(...) move-assigns a std::map: the old entries
\* are released, then the parsed entries are adopted.
map_bin_callback_clear ==
  /\ Subscribed /\ ExecutorFree /\ map_pc = "idle"
  /\ \E parsed \in LandmarkMaps : map_msg' = Just(parsed)
  /\ landmark_map_' = EmptyMap
  /\ map_pc' = "adopt"
  /\ UNCHANGED <<node_state, cfg_vars, cam_vars, map_completed, ekf_vars,
                 img_vars, det_vars, out_vars>>

\* variant: an empty parse result keeps the entries held before
map_bin_callback_adopt_keeps_old ==
  /\ Subscribed /\ map_pc = "adopt"
  /\ landmark_map_' = IF The(map_msg) = EmptyMap THEN map_completed ELSE The(map_msg)
  /\ map_completed' = The(map_msg)
  /\ map_msg' = Nothing
  /\ map_pc' = "idle"
  /\ UNCHANGED <<node_state, cfg_vars, cam_vars, ekf_vars,
                 img_vars, det_vars, out_vars>>

map_bin_callback_adopt ==
  /\ Subscribed /\ map_pc = "adopt"
  /\ landmark_map_' = The(map_msg)
  /\ map_completed' = The(map_msg)
  /\ map_msg' = Nothing
  /\ map_pc' = "idle"
  /\ UNCHANGED <<node_state, cfg_vars, cam_vars, ekf_vars,
                 img_vars, det_vars, out_vars>>

\* ---------------------------------------------------------- image_callback
ResetDetectionLocals ==
  /\ trace' = << >>
  /\ transform' = Nothing
  /\ curr_pose' = Nothing
  /\ ref_stamp_used' = Nothing
  /\ ref_position_used' = Nothing

\* An image_callback that does not look at cam_info_received_.
image_callback_begin_uncalibrated ==
  /\ Subscribed /\ ExecutorFree /\ img_pc = "idle"
  /\ \E has_subscribers \in BOOLEAN, decodable \in BOOLEAN,
        stamp \in Stamps, detected \in MarkerVectors :
       IF ~has_subscribers \/ ~decodable
       THEN /\ image_result' = IF ~has_subscribers THEN "no_subscribers"
                               ELSE "decode_error"
            /\ UNCHANGED <<img_pc, curr_stamp, markers, marker_idx, outcomes, out_vars>>
       ELSE /\ image_result' = "detecting"
            /\ curr_stamp' = stamp
            /\ markers' = detected
            /\ marker_idx' = 0
            /\ img_pc' = "next_marker"
            /\ UNCHANGED <<outcomes, out_vars>>
  /\ UNCHANGED <<node_state, cfg_vars, cam_vars, ekf_vars, map_vars, det_vars>>

\* Entry: returns at once without subscribers, without camera info, or when
\* the image cannot be decoded; otherwise runs the detector.
image_callback_begin ==
  /\ Subscribed /\ ExecutorFree /\ img_pc = "idle"
  /\ \E has_subscribers \in BOOLEAN, decodable \in BOOLEAN,
        stamp \in Stamps, detected \in MarkerVectors :
       IF ~has_subscribers \/ ~cam_info_received_ \/ ~decodable
       THEN /\ image_result' = IF ~has_subscribers THEN "no_subscribers"
                               ELSE IF ~cam_info_received_ THEN "no_cam_info"
                               ELSE "decode_error"
            /\ UNCHANGED <<img_pc, curr_stamp, markers, marker_idx, outcomes, out_vars>>
       ELSE /\ image_result' = "detecting"
            /\ curr_stamp' = stamp
            /\ markers' = detected
            /\ marker_idx' = 0
            /\ img_pc' = "next_marker"
            /\ UNCHANGED <<outcomes, out_vars>>
  /\ UNCHANGED <<node_state, cfg_vars, cam_vars, ekf_vars, map_vars, det_vars>>

\* A loop that a rejected marker ends.
image_callback_next_marker_breaks ==
  /\ Subscribed /\ img_pc = "next_marker"
  /\ outcomes' = IF marker_idx >= 1 THEN Append(outcomes, trace[Len(trace)]) ELSE outcomes
  /\ IF marker_idx < Len(markers) /\ (marker_idx >= 1 => trace[Len(trace)] = "publish")
     THEN /\ marker_idx' = marker_idx + 1
          /\ pub_before' = Len(pose_pub)
          /\ ResetDetectionLocals
          /\ img_pc' = "check_target_tag_ids"
     ELSE /\ img_pc' = "diagnostics"
          /\ UNCHANGED <<marker_idx, det_vars>>
  /\ UNCHANGED <<node_state, cfg_vars, cam_vars, ekf_vars, map_vars,
                 curr_stamp, markers, image_result, out_vars>>

\* for (marker : markers): the next marker is handed to
\* publish_pose_as_base_link; after the last one the diagnostics follow.
image_callback_next_marker ==
  /\ Subscribed /\ img_pc = "next_marker"
  /\ outcomes' = IF marker_idx >= 1 THEN Append(outcomes, trace[Len(trace)]) ELSE outcomes
  /\ IF marker_idx < Len(markers)
     THEN /\ marker_idx' = marker_idx + 1
          /\ pub_before' = Len(pose_pub)
          /\ ResetDetectionLocals
          /\ img_pc' = "check_target_tag_ids"
     ELSE /\ img_pc' = "diagnostics"
          /\ UNCHANGED <<marker_idx, det_vars>>
  /\ UNCHANGED <<node_state, cfg_vars, cam_vars, ekf_vars, map_vars,
                 curr_stamp, markers, image_result, out_vars>>

\* ----------------------------------------------- publish_pose_as_base_link
\* arguments of the running call
tag_id == markers[marker_idx].id

sensor_to_tag == [stamp |-> curr_stamp, pose |-> markers[marker_idx].pose]

\* std::find(target_tag_ids_.begin(), target_tag_ids_.end(), tag_id) != end
InTargetTagIds(id) == \E i \in 1..Len(target_tag_ids_) : target_tag_ids_[i] = id

\* landmark_map_.count(tag_id) != 0
InLandmarkMap(id) == id \in DOMAIN landmark_map_

DistanceSquared(p) == p.x * p.x + p.y * p.y + p.z * p.z

\* variant: the comparison made non-strict
OutOfRange_nonstrict(distance_squared) == distance_threshold_squared_ <= distance_squared

\* distance_threshold_squared_ < distance_squared
OutOfRange(distance_squared) == distance_threshold_squared_ < distance_squared

\* variant: the staleness taken in absolute value
EkfTooOld_absolute(detection_stamp, ekf_stamp) ==
  \/ detection_stamp - ekf_stamp > ekf_time_tolerance_
  \/ ekf_stamp - detection_stamp > ekf_time_tolerance_

\* diff_time.seconds() > ekf_time_tolerance_
EkfTooOld(detection_stamp, ekf_stamp) == detection_stamp - ekf_stamp > ekf_time_tolerance_

\* variant: the comparison made non-strict
PositionDiffers_nonstrict(position, ekf_position) ==
  \/ ekf_position_tolerance_ <= 0
  \/ NormSquared(position, ekf_position) >= ekf_position_tolerance_ * ekf_position_tolerance_

\* norm(curr_pose.position, latest_ekf_pose.position) > ekf_position_tolerance_,
\* the square root compared through its square
PositionDiffers(position, ekf_position) ==
  \/ ekf_position_tolerance_ < 0
  \/ NormSquared(position, ekf_position) > ekf_position_tolerance_ * ekf_position_tolerance_

\* variant: the factors multiplied in the other order
MapToBaseLink_swapped(map_to_tag, base_link_to_tag) ==
  AffineToPose(AffineMul(AffineInverse(pose_to_affine3d(base_link_to_tag)),
                         pose_to_affine3d(map_to_tag)))

\* map_to_base_link = map_to_tag * (base_link_to_tag)^-1
MapToBaseLink(map_to_tag, base_link_to_tag) ==
  AffineToPose(AffineMul(pose_to_affine3d(map_to_tag),
                         AffineInverse(pose_to_affine3d(base_link_to_tag))))

\* variant: the scale squared instead of cubed
CovarianceCoeff_squared(distance_squared) ==
  LET distance == Sqrt(distance_squared)
      num == distance * distance
      den == ReferenceDistance * ReferenceDistance
  IN  IF num > den THEN [num |-> num, den |-> den] ELSE [num |-> 1, den |-> 1]

\* coeff = std::max(1.0, std::pow(distance / 5, 3)), as a rational
CovarianceCoeff(distance_squared) ==
  LET distance == Sqrt(distance_squared)
      num == distance * distance * distance
      den == ReferenceDistance * ReferenceDistance * ReferenceDistance
  IN  IF num > den THEN [num |-> num, den |-> den] ELSE [num |-> 1, den |-> 1]

\* covariance[i] = coeff * base_covariance_[i] for i < 36; an index beyond the
\* vector's size reads the value `beyond`
ScaledCovariance(coeff, beyond) ==
  [i \in 1..CovarianceSize |->
     [num |-> coeff.num * (IF i <= Len(base_covariance_) THEN base_covariance_[i]
                                                        ELSE beyond),
      den |-> coeff.den]]

ppabl_unchanged ==
  UNCHANGED <<node_state, cfg_vars, cam_vars, ekf_vars, map_vars,
              curr_stamp, markers, marker_idx, image_result, outcomes,
              pub_before, diag_pub>>

\* Check tag_id against the whitelist.
check_target_tag_ids ==
  /\ Subscribed /\ img_pc = "check_target_tag_ids"
  /\ trace' = Append(trace, "whitelist")
  /\ img_pc' = IF InTargetTagIds(tag_id) THEN "check_landmark_map" ELSE "next_marker"
  /\ UNCHANGED <<transform, curr_pose, ref_stamp_used, ref_position_used, pose_pub>>
  /\ ppabl_unchanged

\* Check tag_id against the registry.
check_landmark_map ==
  /\ Subscribed /\ img_pc = "check_landmark_map"
  /\ trace' = Append(trace, "registry")
  /\ img_pc' = IF InLandmarkMap(tag_id) THEN "range_filter" ELSE "next_marker"
  /\ UNCHANGED <<transform, curr_pose, ref_stamp_used, ref_position_used, pose_pub>>
  /\ ppabl_unchanged

\* variant: the range filter without its return
range_filter_no_return ==
  /\ Subscribed /\ img_pc = "range_filter"
  /\ trace' = Append(trace, "range")
  /\ img_pc' = "lookup_transform"
  /\ UNCHANGED <<transform, curr_pose, ref_stamp_used, ref_position_used, pose_pub>>
  /\ ppabl_unchanged

\* Range filter.
range_filter ==
  /\ Subscribed /\ img_pc = "range_filter"
  /\ trace' = Append(trace, "range")
  /\ img_pc' = IF OutOfRange(DistanceSquared(sensor_to_tag.pose.position))
               THEN "next_marker" ELSE "lookup_transform"
  /\ UNCHANGED <<transform, curr_pose, ref_stamp_used, ref_position_used, pose_pub>>
  /\ ppabl_unchanged

\* A lookup whose tf2::TransformException nobody catches.
lookup_transform_uncaught ==
  /\ Subscribed /\ img_pc = "lookup_transform"
  /\ \E result \in LookupResults :
       IF result = Nothing
       THEN /\ node_state' = "terminated"
            /\ UNCHANGED <<trace, transform, img_pc>>
       ELSE /\ trace' = Append(trace, "transform")
            /\ transform' = result
            /\ img_pc' = "map_to_base_link"
            /\ UNCHANGED node_state
  /\ UNCHANGED <<curr_pose, ref_stamp_used, ref_position_used, pose_pub>>
  /\ UNCHANGED <<cfg_vars, cam_vars, ekf_vars, map_vars,
                 curr_stamp, markers, marker_idx, image_result, outcomes,
                 pub_before, diag_pub>>

\* Transform to base_link: when lookupTransform throws, the exception handler
\* returns.
lookup_transform ==
  /\ Subscribed /\ img_pc = "lookup_transform"
  /\ trace' = Append(trace, "transform")
  /\ \E result \in LookupResults :
       /\ transform' = result
       /\ img_pc' = IF result = Nothing THEN "next_marker" ELSE "map_to_base_link"
  /\ UNCHANGED <<curr_pose, ref_stamp_used, ref_position_used, pose_pub>>
  /\ ppabl_unchanged

\* (1) map_to_tag, (2) tag_to_base_link, map_to_base_link.  landmark_map_.at
\* throws std::out_of_range for a missing key; nothing catches it.
map_to_base_link ==
  /\ Subscribed /\ img_pc = "map_to_base_link"
  /\ IF InLandmarkMap(tag_id)
     THEN /\ curr_pose' = Just(MapToBaseLink(landmark_map_[tag_id],
                                             doTransform(sensor_to_tag.pose, The(transform))))
          /\ img_pc' = "check_ekf_time"
          /\ UNCHANGED node_state
     ELSE /\ node_state' = "terminated"
          /\ UNCHANGED <<curr_pose, img_pc>>
  /\ UNCHANGED <<cfg_vars, cam_vars, ekf_vars, map_vars,
                 curr_stamp, markers, marker_idx, image_result, outcomes,
                 pub_before, diag_pub>>
  /\ UNCHANGED <<trace, transform, ref_stamp_used, ref_position_used, pose_pub>>

\* Temporal check against latest_ekf_pose_.header.stamp.
check_ekf_time ==
  /\ Subscribed /\ img_pc = "check_ekf_time"
  /\ trace' = Append(trace, "temporal")
  /\ ref_stamp_used' = Just(latest_ekf_pose_.stamp)
  /\ img_pc' = IF EkfTooOld(sensor_to_tag.stamp, latest_ekf_pose_.stamp)
               THEN "next_marker" ELSE "check_ekf_position"
  /\ UNCHANGED <<transform, curr_pose, ref_position_used, pose_pub>>
  /\ ppabl_unchanged

\* Spatial check against latest_ekf_pose_.pose.pose.position.
check_ekf_position ==
  /\ Subscribed /\ img_pc = "check_ekf_position"
  /\ trace' = Append(trace, "spatial")
  /\ ref_position_used' = Just(latest_ekf_pose_.position)
  /\ img_pc' = IF PositionDiffers(The(curr_pose).position, latest_ekf_pose_.position)
               THEN "next_marker" ELSE "publish"
  /\ UNCHANGED <<transform, curr_pose, ref_stamp_used, pose_pub>>
  /\ ppabl_unchanged

\* variant: the message published twice
publish_twice ==
  /\ Subscribed /\ img_pc = "publish"
  /\ trace' = Append(trace, "publish")
  /\ LET msg == [stamp |-> sensor_to_tag.stamp,
                 pose |-> The(curr_pose),
                 covariance |-> ScaledCovariance(
                   CovarianceCoeff(DistanceSquared(sensor_to_tag.pose.position)), 0)]
     IN  pose_pub' = Append(Append(pose_pub, msg), msg)
  /\ img_pc' = "next_marker"
  /\ UNCHANGED <<transform, curr_pose, ref_stamp_used, ref_position_used>>
  /\ ppabl_unchanged

\* A publication stamped with the time of the reference pose.
publish_reference_stamp ==
  /\ Subscribed /\ img_pc = "publish"
  /\ trace' = Append(trace, "publish")
  /\ pose_pub' = Append(pose_pub,
       [stamp |-> latest_ekf_pose_.stamp,
        pose |-> The(curr_pose),
        covariance |-> ScaledCovariance(
          CovarianceCoeff(DistanceSquared(sensor_to_tag.pose.position)), 0)])
  /\ img_pc' = "next_marker"
  /\ UNCHANGED <<transform, curr_pose, ref_stamp_used, ref_position_used>>
  /\ UNCHANGED <<node_state, cfg_vars, cam_vars, ekf_vars, map_vars,
                 curr_stamp, markers, marker_idx, image_result, outcomes,
                 pub_before, diag_pub>>

\* A publication that also becomes the reference pose.
publish_feeds_back ==
  /\ Subscribed /\ img_pc = "publish"
  /\ trace' = Append(trace, "publish")
  /\ pose_pub' = Append(pose_pub,
       [stamp |-> sensor_to_tag.stamp,
        pose |-> The(curr_pose),
        covariance |-> ScaledCovariance(
          CovarianceCoeff(DistanceSquared(sensor_to_tag.pose.position)), 0)])
  /\ img_pc' = "next_marker"
  /\ latest_ekf_pose_' = [stamp |-> sensor_to_tag.stamp, position |-> The(curr_pose).position]
  /\ UNCHANGED <<ekf_pc, ekf_msg, ekf_completed>>
  /\ UNCHANGED <<transform, curr_pose, ref_stamp_used, ref_position_used>>
  /\ UNCHANGED <<node_state, cfg_vars, cam_vars, map_vars,
                 curr_stamp, markers, marker_idx, image_result, outcomes,
                 pub_before, diag_pub>>

\* Construct the output message, scale the covariance, publish.  The loop
\* reads 36 entries of base_covariance_ whatever its size: a read beyond the
\* size yields some value, or faults and ends the process.
publish ==
  /\ Subscribed /\ img_pc = "publish"
  /\ \E read \in OutOfBoundsReads :
       IF Len(base_covariance_) >= CovarianceSize \/ ~read.fault
       THEN /\ trace' = Append(trace, "publish")
            /\ pose_pub' = Append(pose_pub,
                 [stamp |-> sensor_to_tag.stamp,
                  pose |-> The(curr_pose),
                  covariance |-> ScaledCovariance(
                    CovarianceCoeff(DistanceSquared(sensor_to_tag.pose.position)),
                    read.value)])
            /\ img_pc' = "next_marker"
            /\ UNCHANGED node_state
       ELSE /\ node_state' = "terminated"
            /\ UNCHANGED <<trace, pose_pub, img_pc>>
  /\ UNCHANGED <<transform, curr_pose, ref_stamp_used, ref_position_used>>
  /\ UNCHANGED <<cfg_vars, cam_vars, ekf_vars, map_vars,
                 curr_stamp, markers, marker_idx, image_result, outcomes,
                 pub_before, diag_pub>>

\* ------------------------------------------------ image_callback, the rest
\* A diagnostic status that counted the published poses instead.
image_callback_diagnostics_accepted ==
  /\ Subscribed /\ img_pc = "diagnostics"
  /\ LET detected_tags == Len(pose_pub)
     IN  diag_pub' = Just([level |-> IF detected_tags > 0 THEN "OK" ELSE "WARN",
                           detected_tags |-> detected_tags])
  /\ img_pc' = "return"
  /\ UNCHANGED <<node_state, cfg_vars, cam_vars, ekf_vars, map_vars,
                 curr_stamp, markers, marker_idx, image_result, outcomes,
                 det_vars, pose_pub>>

\* The diagnostic status carries the number of detected markers.
image_callback_diagnostics ==
  /\ Subscribed /\ img_pc = "diagnostics"
  /\ LET detected_tags == Len(markers)
     IN  diag_pub' = Just([level |-> IF detected_tags > 0 THEN "OK" ELSE "WARN",
                           detected_tags |-> detected_tags])
  /\ img_pc' = "return"
  /\ UNCHANGED <<node_state, cfg_vars, cam_vars, ekf_vars, map_vars,
                 curr_stamp, markers, marker_idx, image_result, outcomes,
                 det_vars, pose_pub>>

\* The callback returns: its locals go out of scope and the messages it
\* published have left the node.
image_callback_return ==
  /\ Subscribed /\ img_pc = "return"
  /\ img_pc' = "idle"
  /\ image_result' = "returned"
  /\ curr_stamp' = 0 /\ markers' = << >> /\ marker_idx' = 0 /\ outcomes' = << >>
  /\ pub_before' = 0
  /\ ResetDetectionLocals
  /\ pose_pub' = << >> /\ diag_pub' = Nothing
  /\ UNCHANGED <<node_state, cfg_vars, cam_vars, ekf_vars, map_vars>>

\* ----------------------------------------------------------- specification
\* the callbacks and their steps
Callbacks ==
  \/ cam_info_callback
  \/ ekf_pose_callback_header
  \/ ekf_pose_callback_pose
  \/ map_bin_callback_clear
  \/ map_bin_callback_adopt
  \/ image_callback_begin
  \/ image_callback_next_marker
  \/ check_target_tag_ids
  \/ check_landmark_map
  \/ range_filter
  \/ lookup_transform
  \/ map_to_base_link
  \/ check_ekf_time
  \/ check_ekf_position
  \/ publish
  \/ image_callback_diagnostics
  \/ image_callback_return

Next == setup \/ Callbacks

Spec == Init /\ [][Next]_vars

\* the node started with any parameter file
NextAnyConfig == setup_any_config \/ Callbacks

SpecAnyConfig == Init /\ [][NextAnyConfig]_vars

\* ============================================================== properties
\* The detection the running image_callback handed last to
\* publish_pose_as_base_link, and what is known of it from the outside.
InDetection == marker_idx >= 1 /\ img_pc # "idle"

\* publish_pose_as_base_link has returned for that detection
DetectionDone == InDetection /\ img_pc \in {"next_marker", "diagnostics", "return"}

PublishedForDetection == Len(pose_pub) - pub_before

DetId == markers[marker_idx].id

DetPosition == markers[marker_idx].pose.position

DetDistanceSquared ==
  DetPosition.x * DetPosition.x + DetPosition.y * DetPosition.y + DetPosition.z * DetPosition.z

Whitelisted == DetId \in {target_tag_ids_[i] : i \in DOMAIN target_tag_ids_}

Registered == DetId \in DOMAIN landmark_map_

WithinRange == DetDistanceSquared <= distance_threshold_squared_

LookupSucceeded == transform # Nothing

ReferenceFresh == curr_stamp - latest_ekf_pose_.stamp <= ekf_time_tolerance_

\* squared distance between the candidate fused position and the reference
FusedOffsetSquared ==
  LET p == The(curr_pose).position
      q == latest_ekf_pose_.position
  IN  (p.x - q.x) * (p.x - q.x) + (p.y - q.y) * (p.y - q.y) + (p.z - q.z) * (p.z - q.z)

ReferenceNear ==
  /\ ekf_position_tolerance_ >= 0
  /\ FusedOffsetSquared <= ekf_position_tolerance_ * ekf_position_tolerance_

AllSixChecksPass ==
  /\ Whitelisted
  /\ Registered
  /\ WithinRange
  /\ LookupSucceeded
  /\ ReferenceFresh
  /\ ReferenceNear

\* C1: when publish_pose_as_base_link has returned for a detection, exactly
\* one FusedPoseEstimate was published for it if all six checks pass
\* (whitelist, registry, range, transform lookup, temporal, spatial), and
\* none if any of them fails.
C1_ExactlyOneIffAllChecksPass ==
  DetectionDone =>
    PublishedForDetection = (IF AllSixChecksPass THEN 1 ELSE 0)

C1_Witness ==
  DetectionDone /\ AllSixChecksPass /\ PublishedForDetection = 1

GateOrder ==
  <<"whitelist", "registry", "range", "transform", "temporal", "spatial", "publish">>

IsPrefix(p, q) == Len(p) <= Len(q) /\ \A i \in 1..Len(p) : p[i] = q[i]

\* C2: the steps a detection has gone through are a prefix of the order
\* whitelist, registry, range, transform, temporal, spatial, publish, and a
\* step is reached only when the check before it passed: the transform
\* lookup is made only after whitelist, registry and range passed, and the
\* reference pose is read only after the lookup succeeded.
C2_GateOrder ==
  InDetection =>
    /\ IsPrefix(trace, GateOrder)
    /\ Len(trace) >= 2 => Whitelisted
    /\ Len(trace) >= 3 => Registered
    /\ Len(trace) >= 4 => WithinRange
    /\ Len(trace) >= 5 => LookupSucceeded
    /\ Len(trace) >= 6 => ReferenceFresh
    /\ Len(trace) >= 7 => ReferenceNear
    /\ LookupSucceeded => Len(trace) >= 4
    /\ (ref_stamp_used # Nothing \/ ref_position_used # Nothing) =>
         /\ LookupSucceeded
         /\ Whitelisted /\ Registered /\ WithinRange

C2_Witness ==
  /\ DetectionDone
  /\ trace = <<"whitelist", "registry", "range">>
  /\ ~WithinRange
  /\ transform = Nothing /\ ref_stamp_used = Nothing

\* C3: a detection whose identifier is not in the registry last received
\* (the empty one before any map, or a reloaded one that lacks it) never
\* produces a FusedPoseEstimate.
C3_UnregisteredNeverPublished ==
  (InDetection /\ DetId \notin DOMAIN map_completed) => PublishedForDetection = 0

C3_Witness ==
  /\ DetectionDone
  /\ map_completed = MapTwo
  /\ DetId \notin DOMAIN map_completed
  /\ Whitelisted /\ WithinRange
  /\ PublishedForDetection = 0

\* the range check has been made for the detection, and it has passed it
RangeChecked == InDetection /\ Len(trace) >= 3

PassedRange == img_pc = "lookup_transform" \/ Len(trace) >= 4

\* C4: the range check is inclusive: a squared distance equal to (or below)
\* the squared threshold passes it, a squared distance above is rejected and
\* nothing is published.
C4_RangeInclusive ==
  RangeChecked =>
    IF DetDistanceSquared <= distance_threshold_squared_
    THEN PassedRange
    ELSE ~PassedRange /\ DetectionDone /\ PublishedForDetection = 0

C4_Witness ==
  RangeChecked /\ DetDistanceSquared = distance_threshold_squared_ /\ PassedRange

\* the temporal check has been made for the detection, and it has passed it
TemporalChecked == InDetection /\ Len(trace) >= 5

PassedTemporal == img_pc = "check_ekf_position" \/ Len(trace) >= 6

StampDifference == curr_stamp - latest_ekf_pose_.stamp

\* C5: with dt = detection stamp - reference stamp, a detection with
\* dt > time tolerance is rejected with no output, and one with
\* dt <= tolerance, negative dt included, goes on to the spatial check.
C5_TemporalGate ==
  TemporalChecked =>
    IF StampDifference > ekf_time_tolerance_
    THEN ~PassedTemporal /\ DetectionDone /\ PublishedForDetection = 0
    ELSE PassedTemporal

C5_Witness ==
  TemporalChecked /\ StampDifference < 0 /\ PassedTemporal /\ "spatial" = trace[Len(trace)]

\* the spatial check has been made for the detection
SpatialChecked == InDetection /\ Len(trace) >= 6

\* C6: a detection that passed the first five checks is rejected with no
\* output when the distance between its fused position and the reference
\* position is above the position tolerance, and is published when that
\* distance is at most the tolerance.
C6_SpatialGate ==
  SpatialChecked =>
    IF FusedOffsetSquared > ekf_position_tolerance_ * ekf_position_tolerance_
    THEN /\ DetectionDone
         /\ PublishedForDetection = 0
         /\ trace[Len(trace)] = "spatial"
    ELSE \/ img_pc = "publish" /\ PublishedForDetection = 0
         \/ DetectionDone /\ PublishedForDetection = 1 /\ trace[Len(trace)] = "publish"

C6_Witness ==
  /\ SpatialChecked /\ DetectionDone
  /\ ekf_position_tolerance_ > 0
  /\ FusedOffsetSquared = ekf_position_tolerance_ * ekf_position_tolerance_
  /\ PublishedForDetection = 1

\* the message published for the detection
PublishedMsg == pose_pub[Len(pose_pub)]

JustPublished == DetectionDone /\ PublishedForDetection = 1

\* the unsquared sensor-frame distance of the detection
DetDistance == CHOOSE d \in 0..DetDistanceSquared : d * d = DetDistanceSquared

\* num / den = factor * base, for a factor given as fnum / fden
RationalIs(q, fnum, fden, base) == q.num * fden = q.den * fnum * base

\* C7: every published covariance entry, for all 36 entries, is the base
\* entry times max(1, (d/5)^3): the base entry itself for d <= 5, 8 times the
\* base entry for d = 10, and never less than the base entry.
C7_CovarianceScaling ==
  JustPublished =>
    /\ DOMAIN PublishedMsg.covariance = 1..36
    /\ \A i \in 1..36 :
         LET q == PublishedMsg.covariance[i]
             b == base_covariance_[i]
             d == DetDistance
         IN  /\ q.den > 0
             /\ IF d * d * d > 125
                THEN RationalIs(q, d * d * d, 125, b)
                ELSE RationalIs(q, 1, 1, b)
             /\ d <= 5 => q.num = q.den * b
             /\ d = 10 => q.num = 8 * q.den * b
             /\ b >= 0 => q.num >= q.den * b

C7_Witness ==
  /\ JustPublished
  /\ DetDistance = 10
  /\ \A i \in 1..36 : PublishedMsg.covariance[i].num = 8 * i * PublishedMsg.covariance[i].den

\* a vector turned by k quarter turns about z
QuarterTurns(k, v) ==
  CASE k % 4 = 0 -> [x |-> v.x, y |-> v.y, z |-> v.z]
    [] k % 4 = 1 -> [x |-> 0 - v.y, y |-> v.x, z |-> v.z]
    [] k % 4 = 2 -> [x |-> 0 - v.x, y |-> 0 - v.y, z |-> v.z]
    [] OTHER     -> [x |-> v.y, y |-> 0 - v.x, z |-> v.z]

Plus(u, v) == [x |-> u.x + v.x, y |-> u.y + v.y, z |-> u.z + v.z]

Minus(u, v) == [x |-> u.x - v.x, y |-> u.y - v.y, z |-> u.z - v.z]

\* C8: the fused pose P of a detection, which is the pose that is published
\* for it, satisfies P o bodyToLandmark = mapToLandmark, where
\* bodyToLandmark = sensorToBody o detection; with translations only the
\* fused position is landmark - (sensorToBody offset + detection offset),
\* and a landmark at x=10 seen at x=2 through the identity gives (8, 0, 0).
C8_PoseComposition ==
  /\ JustPublished => PublishedMsg.pose = The(curr_pose)
  /\ (InDetection /\ curr_pose # Nothing) =>
       LET det == markers[marker_idx].pose
           tf == The(transform)
           lm == landmark_map_[DetId]
           P == The(curr_pose)
           btl_position == Plus(tf.position, QuarterTurns(tf.yaw, det.position))
           btl_yaw == (tf.yaw + det.yaw) % 4
       IN  /\ Plus(P.position, QuarterTurns(P.yaw, btl_position)) = lm.position
           /\ (P.yaw + btl_yaw) % 4 = lm.yaw
           /\ P.yaw \in 0..3
           /\ (det.yaw = 0 /\ tf.yaw = 0 /\ lm.yaw = 0) =>
                /\ P.position = Minus(lm.position, Plus(tf.position, det.position))
                /\ P.yaw = 0
           /\ ( /\ lm = [position |-> [x |-> 10, y |-> 0, z |-> 0], yaw |-> 0]
                /\ det = [position |-> [x |-> 2, y |-> 0, z |-> 0], yaw |-> 0]
                /\ tf = [position |-> [x |-> 0, y |-> 0, z |-> 0], yaw |-> 0] ) =>
                P = [position |-> [x |-> 8, y |-> 0, z |-> 0], yaw |-> 0]

C8_Witness ==
  /\ JustPublished
  /\ DetId = "5"
  /\ landmark_map_[DetId] = [position |-> [x |-> 10, y |-> 0, z |-> 0], yaw |-> 0]
  /\ markers[marker_idx].pose = [position |-> [x |-> 2, y |-> 0, z |-> 0], yaw |-> 0]
  /\ The(transform) = [position |-> [x |-> 0, y |-> 0, z |-> 0], yaw |-> 0]
  /\ PublishedMsg.pose.position = [x |-> 8, y |-> 0, z |-> 0]

\* a published pose whose three transforms all rotate
C8_RotatedReached ==
  /\ JustPublished
  /\ markers[marker_idx].pose.yaw # 0
  /\ The(transform).yaw # 0
  /\ landmark_map_[DetId].yaw # 0

\* C9: the reference stamp read by the temporal check and the reference
\* position read by the spatial check of a detection are those of the last
\* reference-pose update that completed: both come from that one message,
\* and no earlier message is used.
C9_MostRecentReference ==
  /\ ref_stamp_used # Nothing => The(ref_stamp_used) = ekf_completed.stamp
  /\ ref_position_used # Nothing =>
       [stamp |-> The(ref_stamp_used), position |-> The(ref_position_used)] = ekf_completed

C9_Witness ==
  /\ ref_stamp_used # Nothing /\ ref_position_used # Nothing
  /\ ekf_completed # DefaultEkfPose
  /\ ekf_completed.stamp # 0
  /\ The(ref_position_used) = ekf_completed.position

\* a step of the detection pipeline that reads the registry / the reference
ReadsRegistry ==
  /\ img_pc \in {"check_landmark_map", "map_to_base_link"}
  /\ img_pc' # img_pc

ReadsReference ==
  /\ img_pc \in {"check_ekf_time", "check_ekf_position"}
  /\ img_pc' # img_pc

\* the complete values around a write: the value before it and, while a
\* write is under way, the value after it
CompleteRegistries == {map_completed} \cup map_msg

CompleteReferences == {ekf_completed} \cup ekf_msg

\* C10: every read of the registry or of the reference pose by the detection
\* pipeline finds a complete value, the one before or the one after a write,
\* under every interleaving with map_bin_callback and ekf_pose_callback.
C10_NoPartialRead ==
  [][ /\ ReadsRegistry => landmark_map_ \in CompleteRegistries
      /\ ReadsReference => latest_ekf_pose_ \in CompleteReferences ]_vars

C10_Witness ==
  /\ img_pc = "publish"
  /\ map_completed # EmptyMap
  /\ ekf_completed # DefaultEkfPose
  /\ landmark_map_ = map_completed
  /\ latest_ekf_pose_ = ekf_completed

\* the parameter file given to setup() was malformed
MalformedConfig ==
  /\ node_state # "constructed"
  /\ \/ detection_mode_ \notin DetectionModes
     \/ Len(base_covariance_) # 36

\* C11: with a malformed configuration (unrecognised detection mode, or a
\* base covariance that does not have 36 entries) setup fails, no detection
\* is ever processed and no FusedPoseEstimate is ever published.
C11_MalformedConfigIsFatal ==
  MalformedConfig =>
    /\ node_state = "setup_failed"
    /\ img_pc = "idle" /\ marker_idx = 0
    /\ pose_pub = << >>

\* the part of C11 the code keeps: an unrecognised detection mode is fatal
C11_InvalidModeIsFatal ==
  (node_state # "constructed" /\ detection_mode_ \notin DetectionModes) =>
    /\ node_state = "setup_failed"
    /\ img_pc = "idle" /\ marker_idx = 0
    /\ pose_pub = << >>

\* a message published from a base covariance of 35 entries
C11_ShortCovariancePublished ==
  /\ Len(base_covariance_) = 35
  /\ pose_pub # << >>

\* ---------------------------------------------------------------- C12
\* the diagnostic message of the running image_callback
Diag == The(diag_pub)

\* the poses the running image_callback has published, i.e. its accepted
\* detections
AcceptedInCycle == Len(pose_pub)

\* C12 as stated: the diagnostic message of a cycle reports the number of
\* accepted detections of that cycle (those that passed all gates and were
\* published).
C12_ReportsAcceptedCount ==
  diag_pub # Nothing => Diag.detected_tags = AcceptedInCycle

\* C12: the diagnostic message of a cycle reports the number of markers
\* detected in the image, each of which was handed to
\* publish_pose_as_base_link whether it was then published or rejected; the
\* level is OK when that number is positive and WARN when it is zero, and the
\* number is never below the number of poses published in the cycle.
C12_ReportsDetectedCount ==
  /\ img_pc = "return" => diag_pub # Nothing
  /\ diag_pub # Nothing =>
       /\ Diag.detected_tags = Len(markers)
       /\ Diag.detected_tags = Len(outcomes)
       /\ Diag.detected_tags >= AcceptedInCycle
       /\ Diag.level = (IF Len(markers) > 0 THEN "OK" ELSE "WARN")

\* two markers detected, one of them published, and the diagnostic says two
C12_Witness ==
  /\ diag_pub # Nothing
  /\ Diag.detected_tags = 2
  /\ AcceptedInCycle = 1

\* ---------------------------------------------------------------- C13
\* the transform lookup of the current detection threw
LookupFailed ==
  /\ InDetection
  /\ trace # << >> /\ trace[Len(trace)] = "transform"
  /\ transform = Nothing

\* number of transform lookups made for the current detection
LookupsMade == Cardinality({i \in DOMAIN trace : trace[i] = "transform"})

\* an earlier detection of the same image ended at a failed lookup
LookupFailedEarlier ==
  \E i \in 1..(marker_idx - 1) : i <= Len(outcomes) /\ outcomes[i] = "transform"

\* the step of image_callback that returns from the cv_bridge exception
DecodeFails ==
  /\ image_result # "decode_error"
  /\ image_result' = "decode_error"

\* C13: a failed transform lookup ends the detection without a publication,
\* after a single lookup, with the node still running, and a later detection
\* of the image that passes all six checks is published; an image that cannot
\* be decoded is dropped with nothing published, the node still running and
\* idle, and every variable of the node as it was, so later images are
\* processed as before.
C13_FailureIsAnOutcome ==
  /\ [](LookupFailed =>
         /\ DetectionDone
         /\ PublishedForDetection = 0
         /\ LookupsMade = 1)
  /\ [](InDetection => node_state = "running")
  /\ []((DetectionDone /\ LookupFailedEarlier /\ AllSixChecksPass) =>
         PublishedForDetection = 1)
  /\ [](image_result = "decode_error" =>
         /\ img_pc = "idle"
         /\ pose_pub = << >> /\ diag_pub = Nothing
         /\ node_state = "running")
  /\ [][DecodeFails =>
         UNCHANGED <<node_state, cfg_vars, cam_vars, ekf_vars, map_vars,
                     img_pc, curr_stamp, markers, marker_idx, outcomes,
                     det_vars, out_vars>>]_vars

\* the lookup failed for the first detection of an image and the second one
\* was published
C13_Witness ==
  /\ DetectionDone /\ marker_idx = 2
  /\ LookupFailedEarlier
  /\ PublishedForDetection = 1

\* an image that could not be decoded, with the calibration present
C13_DecodeErrorReached ==
  /\ image_result = "decode_error"
  /\ cam_info_received_

\* ---------------------------------------------------------------- C14
\* The message a detection yields when it is published, from the detection,
\* its stamp, the registry, the sensor-to-body transform and the configured
\* base covariance; the reference pose is not among its arguments.
FusedValue(detection, stamp, registry, sensor_to_body, covariance) ==
  LET d == DistanceSquared(detection.pose.position)
      coeff == CovarianceCoeff(d)
  IN  [stamp |-> stamp,
       pose |-> MapToBaseLink(registry[detection.id],
                              doTransform(detection.pose, sensor_to_body)),
       covariance |-> [i \in 1..CovarianceSize |->
                         [num |-> coeff.num * covariance[i], den |-> coeff.den]]]

\* C14: the published pose, timestamp and covariance of a detection are a
\* function of the detection, its stamp, the registry, the sensor-to-body
\* transform and the configuration alone, so two runs that differ only in the
\* reference pose and both publish, publish the same message.
C14_ReferenceOnlyGates ==
  JustPublished =>
    PublishedMsg = FusedValue(markers[marker_idx], curr_stamp, landmark_map_,
                              The(transform), base_covariance_)

\* the inputs of the run that C14_Witness and C14_OtherReferenceReached share
C14_SameInputs ==
  /\ JustPublished
  /\ markers[marker_idx] = Detection("5", Pose(2, 0, 0, 0))
  /\ curr_stamp = 0
  /\ landmark_map_ = MapOne
  /\ The(transform) = IdentityPose
  /\ base_covariance_ = ConfigA.base_covariance
  /\ PublishedMsg.pose.position = Vec(8, 0, 0)

\* published under a reference that differs from the published message in
\* position and in time
C14_Witness ==
  /\ C14_SameInputs
  /\ latest_ekf_pose_ = EkfMsg(1, Vec(8, 1, 0))

\* the same message published under another reference pose
C14_OtherReferenceReached ==
  /\ C14_SameInputs
  /\ latest_ekf_pose_ = EkfMsg(0, Vec(8, 0, 0))

\* ---------------------------------------------------------------- C15
\* the positions of image_callback inside publish_pose_as_base_link
InPublishPoseAsBaseLink ==
  img_pc \in {"check_target_tag_ids", "check_landmark_map", "range_filter",
              "lookup_transform", "map_to_base_link", "check_ekf_time",
              "check_ekf_position", "publish"}

\* a step of publish_pose_as_base_link
PublishPoseAsBaseLinkStep == InPublishPoseAsBaseLink /\ img_pc' # img_pc

\* C15: no step of publish_pose_as_base_link, whether it accepts or rejects,
\* changes the landmark registry, the reference pose, the calibration or the
\* configuration, and every detection starts with fresh locals, nothing of
\* the detections before it carried over.
C15_Memoryless ==
  /\ [][PublishPoseAsBaseLinkStep =>
         UNCHANGED <<landmark_map_, latest_ekf_pose_, cam_vars, cfg_vars>>]_vars
  /\ [](img_pc = "check_target_tag_ids" =>
         /\ trace = << >>
         /\ transform = Nothing /\ curr_pose = Nothing
         /\ ref_stamp_used = Nothing /\ ref_position_used = Nothing
         /\ pub_before = Len(pose_pub))

\* the second detection of an image, accepted after the first was accepted
\* at another fused position
C15_Witness ==
  /\ DetectionDone /\ marker_idx = 2
  /\ PublishedForDetection = 1
  /\ Len(pose_pub) = 2
  /\ pose_pub[1].pose # pose_pub[2].pose

\* ---------------------------------------------------------------- C16
\* the ways publish_pose_as_base_link ends: at the check that rejected, or
\* at the publication
Outcomes ==
  {"whitelist", "registry", "range", "transform", "temporal", "spatial", "publish"}

\* number of detections of the running image_callback that ended published
PublishedOutcomes == Cardinality({i \in DOMAIN outcomes : outcomes[i] = "publish"})

\* C16: the detections of an image are handled in detection order, one at a
\* time: while detection k is processed exactly the k - 1 detections before
\* it have finished, each published or rejected; the loop moves on by one
\* detection whatever the outcome, so when the loop is over every detection
\* of the image has been processed and between 0 and n poses were published,
\* one for each detection that ended published.
C16_EachDetectionToCompletion ==
  /\ [](img_pc # "idle" =>
         /\ marker_idx \in 0..Len(markers)
         /\ \A i \in DOMAIN outcomes : outcomes[i] \in Outcomes)
  /\ []((InPublishPoseAsBaseLink \/ img_pc = "next_marker") =>
         Len(outcomes) = (IF marker_idx = 0 THEN 0 ELSE marker_idx - 1))
  /\ [](InPublishPoseAsBaseLink => marker_idx >= 1)
  /\ [](img_pc \in {"diagnostics", "return"} =>
         /\ marker_idx = Len(markers)
         /\ Len(outcomes) = Len(markers)
         /\ Len(pose_pub) = PublishedOutcomes
         /\ Len(pose_pub) \in 0..Len(markers))
  /\ [][img_pc # "return" =>
         (marker_idx' = marker_idx \/ marker_idx' = marker_idx + 1)]_vars
  /\ [][Len(pose_pub') > Len(pose_pub) =>
         /\ Len(pose_pub') = Len(pose_pub) + 1
         /\ pose_pub'[Len(pose_pub')].pose = The(curr_pose)
         /\ img_pc = "publish"]_vars

\* an image with two detections: the first was rejected, the second was
\* still processed and published
C16_Witness ==
  /\ img_pc = "return"
  /\ Len(markers) = 2
  /\ outcomes[1] \in Outcomes \ {"publish"}
  /\ outcomes[2] = "publish"
  /\ Len(pose_pub) = 1

\* ---------------------------------------------------------------- C17
\* C17: the camera parameters are unset exactly as long as the received flag
\* is false; the step that sets the flag sets the parameters from a camera
\* info; once the flag is true no step changes the parameters or the flag.
C17_CalibrationSetOnce ==
  /\ [](cam_info_received_ \in BOOLEAN)
  /\ [](~cam_info_received_ <=> cam_param_ = None)
  /\ [](cam_info_received_ => cam_param_ \in CamInfos)
  /\ [][(~cam_info_received_ /\ cam_vars' # cam_vars) =>
         (cam_info_received_' /\ cam_param_' \in CamInfos)]_vars
  /\ [][cam_info_received_ =>
         (cam_info_received_' /\ cam_param_' = cam_param_)]_vars

\* the calibration of the first camera info, in use by a detection
C17_Witness ==
  /\ cam_info_received_
  /\ cam_param_ = "camera_b"
  /\ img_pc = "publish"

\* ---------------------------------------------------------------- C18
\* the step of image_callback that returns because no camera info was
\* received
DroppedUncalibrated ==
  /\ image_result # "no_cam_info"
  /\ image_result' = "no_cam_info"

\* C18: as long as no camera info was received no image is past the start of
\* image_callback: there are no detected markers, no detection is in
\* process, no pose and no diagnostic message is published; the image that
\* arrives then is dropped with every variable of the node as it was, and
\* the camera info that arrives later starts no processing of it.
C18_NoImageBeforeCalibration ==
  /\ [](~cam_info_received_ =>
         /\ img_pc = "idle"
         /\ markers = << >> /\ marker_idx = 0 /\ outcomes = << >>
         /\ trace = << >>
         /\ pose_pub = << >> /\ diag_pub = Nothing
         /\ image_result \in {None, "no_subscribers", "no_cam_info"})
  /\ [](image_result = "no_cam_info" =>
         /\ img_pc = "idle"
         /\ markers = << >> /\ pose_pub = << >> /\ diag_pub = Nothing)
  /\ [][DroppedUncalibrated =>
         /\ ~cam_info_received_
         /\ UNCHANGED <<node_state, cfg_vars, cam_vars, ekf_vars, map_vars,
                        img_pc, curr_stamp, markers, marker_idx, outcomes,
                        det_vars, out_vars>>]_vars
  /\ [][(~cam_info_received_ /\ cam_info_received_') =>
         UNCHANGED <<img_vars, det_vars, out_vars>>]_vars

\* an image was dropped for want of calibration, the camera info has arrived
\* since, and the node is idle with nothing published
C18_Witness ==
  /\ image_result = "no_cam_info"
  /\ cam_info_received_
  /\ img_pc = "idle"
  /\ pose_pub = << >> /\ diag_pub = Nothing

\* ---------------------------------------------------------------- C19
\* no reference pose has been received: latest_ekf_pose_ is still the
\* default-constructed message and no update of it is under way
NoReferenceReceived ==
  /\ ekf_completed = DefaultEkfPose
  /\ latest_ekf_pose_ = DefaultEkfPose
  /\ ekf_pc = "idle"

\* the gates of the current detection were made against the default reference
GatedAgainstDefault ==
  /\ ref_stamp_used # Nothing => The(ref_stamp_used) = 0
  /\ ref_position_used # Nothing => The(ref_position_used) = Vec(0, 0, 0)

\* the part of C19 about the temporal check: with no reference received the
\* gates read stamp 0 and the origin, and a detection whose stamp exceeds the
\* time tolerance ends at the temporal check with nothing published
C19_LateDetectionRejected ==
  NoReferenceReceived =>
    /\ GatedAgainstDefault
    /\ (TemporalChecked /\ curr_stamp > ekf_time_tolerance_) =>
         /\ ~PassedTemporal
         /\ DetectionDone
         /\ trace[Len(trace)] = "temporal"
         /\ PublishedForDetection = 0

\* C19: while no reference pose has been received the gates compare against
\* the default-initialised reference (stamp 0, position at the origin), every
\* detection whose stamp exceeds the time tolerance is rejected by the
\* temporal check, and no FusedPoseEstimate is published before the first
\* reference-pose update.
C19_NothingBeforeFirstReference ==
  NoReferenceReceived =>
    /\ GatedAgainstDefault
    /\ (TemporalChecked /\ curr_stamp > ekf_time_tolerance_) =>
         (~PassedTemporal /\ DetectionDone /\ PublishedForDetection = 0)
    /\ pose_pub = << >>

\* a detection rejected at the temporal check with no reference received
C19_LateDetectionReached ==
  /\ NoReferenceReceived
  /\ TemporalChecked /\ curr_stamp > ekf_time_tolerance_
  /\ DetectionDone

\* a pose published with no reference received
C19_PublishedAgainstDefault ==
  /\ NoReferenceReceived
  /\ JustPublished
  /\ curr_stamp <= ekf_time_tolerance_
  /\ PublishedMsg.pose.position = Vec(0, 0, 0)

\* ---------------------------------------------------------------- C20
\* the current detection has passed the registry check and has not returned
PastRegistryCheck ==
  img_pc \in {"range_filter", "lookup_transform", "map_to_base_link",
              "check_ekf_time", "check_ekf_position", "publish"}

\* C20: from the registry check of a detection to its end the registry is
\* one value under every interleaving with map_bin_callback: no step changes
\* it while publish_pose_as_base_link runs, it is a complete registry, the
\* identifier that passed the check is in it at the retrieval, which
\* therefore never throws, and the fused pose is made from the landmark
\* pose of that registry.
C20_OneRegistrySnapshot ==
  /\ [][InPublishPoseAsBaseLink => landmark_map_' = landmark_map_]_vars
  /\ [](PastRegistryCheck =>
         /\ DetId \in DOMAIN landmark_map_
         /\ landmark_map_ = map_completed
         /\ map_pc = "idle")
  /\ []((InDetection /\ curr_pose # Nothing) =>
         /\ DetId \in DOMAIN landmark_map_
         /\ The(curr_pose) =
              MapToBaseLink(landmark_map_[DetId],
                            doTransform(markers[marker_idx].pose, The(transform))))
  /\ [](node_state # "terminated")

\* the landmark pose retrieved for a detection, from a registry with more
\* than one landmark
C20_Witness ==
  /\ img_pc = "check_ekf_time"
  /\ curr_pose # Nothing
  /\ landmark_map_ = MapOne
  /\ DetId = "7"

====
